---- MODULE Spec2Model ----
(***************************************************************************)
(* A model of the feast SQLite online store                                *)
(* (sdk/python/feast/infra/online_stores/sqlite.py), of the entity-key     *)
(* encoder it writes with (sdk/python/feast/infra/key_encoding_utils.py)   *)
(* and of the local registry store (sdk/python/feast/infra/local.py).      *)
(*                                                                         *)
(* Byte strings are sequences of naturals below 256; a str is the sequence *)
(* of its code points.  Three specifications are given: SpecEnc applies    *)
(* the key encoders to bounded columnar batches, Spec runs the operations  *)
(* of one store instance and of the registry store, SpecConn runs the      *)
(* store's operations beside a second store instance.                      *)
(***************************************************************************)
EXTENDS Integers, Sequences, FiniteSets, TLC

VARIABLES
    encIn,          \* the pa.Table handed to serialize_entity_keys
    encOut,         \* what serialize_entity_keys returned or raised for it
    prefixOut,      \* what serialize_entity_key_prefix returned for its field names
    conn,           \* SqliteOnlineStore._conn is set (a connection is open)
    attr,           \* the _conn attribute of the class and of two store instances (0: None)
    connects,       \* number of sqlite3.connect calls made so far
    pathExists,     \* a file exists at the database path
    db,             \* the database the connection sees: table id -> storage
    registryExists, \* LocalRegistryStore._filepath exists
    call,           \* the last operation called and its arguments
    ret,            \* what that operation returned or raised
    lastWrite,      \* per table, the last row a committed write_batch carried for each entity key
    nWrites         \* number of online_write_batch calls committed so far

encVars == <<encIn, encOut, prefixOut>>
storeVars == <<conn, attr, connects, pathExists, db, registryExists, call, ret, lastWrite, nWrites>>
vars == <<encIn, encOut, prefixOut, conn, attr, connects, pathExists, db, registryExists, call, ret, lastWrite, nWrites>>

----------------------------------------------------------------------------
(* Bounds of the model *)

\* largest number of rows in a batch handed to the encoder or to a write
MaxRows == 2
\* largest number of keys in one online_read call
MaxKeys == 2
\* largest number of committed online_write_batch calls in a behaviour
MaxWrites == 2

----------------------------------------------------------------------------
(* Byte strings *)

RECURSIVE Concat(_)
\* b"".join(list): the concatenation of a sequence of byte strings
Concat(ss) == IF ss = <<>> THEN <<>> ELSE Head(ss) \o Concat(Tail(ss))

\* memcmp order on byte strings, code point order on str: a < b
LexLess(a, b) ==
    \/ /\ Len(a) < Len(b)
       /\ \A i \in 1..Len(a) : a[i] = b[i]
    \/ \E i \in 1..Len(a) :
          /\ i <= Len(b)
          /\ a[i] < b[i]
          /\ \A j \in 1..(i - 1) : a[j] = b[j]

RECURSIVE SortedSeq(_)
\* sorted(S) for a finite set S of pairwise distinct strings
SortedSeq(S) ==
    IF S = {} THEN <<>>
    ELSE LET m == CHOOSE x \in S : \A y \in S \ {x} : LexLess(x, y)
         IN  <<m>> \o SortedSeq(S \ {m})

\* the elements of a sequence
Range(s) == {s[i] : i \in 1..Len(s)}

\* struct.pack("<I", n): four bytes, little-endian
PackU32(n) ==
    <<n % 256, (n \div 256) % 256, (n \div 65536) % 256, (n \div 16777216) % 256>>

\* struct.pack("<i", v) for a 32-bit v: four bytes, two's complement,
\* little-endian (a negative v is the complement of -(v + 1))
PackI32(v) ==
    IF v >= 0 THEN PackU32(v)
    ELSE LET u == PackU32(-(v + 1)) IN [i \in 1..4 |-> 255 - u[i]]

\* A 64-bit integer is held as the eight bytes of its Arrow buffer slot
\* (two's complement, little-endian).  It lies in the range of struct's
\* standard-size "l" format, -2^31 .. 2^31 - 1, exactly when its upper
\* four bytes are the sign extension of the lower four.
InInt32(w) ==
    \/ w[4] < 128 /\ \A i \in 5..8 : w[i] = 0
    \/ w[4] >= 128 /\ \A i \in 5..8 : w[i] = 255

\* struct.pack("<l", v) for a 64-bit v in that range: "l" is four bytes
\* wide under "<", so the value's lower four bytes
PackL(w) == SubSeq(w, 1, 4)

RECURSIVE Utf8(_)
\* str.encode("utf8") for code points below 2048
Utf8(s) ==
    IF s = <<>> THEN <<>>
    ELSE LET c == Head(s)
         IN  (IF c < 128 THEN <<c>> ELSE <<192 + (c \div 64), 128 + (c % 64)>>)
             \o Utf8(Tail(s))

----------------------------------------------------------------------------
(* pyarrow type ids (pa.<type>().id, the Arrow Type enum) *)

TypeIdInt32 == 7
TypeIdInt64 == 9
TypeIdDouble == 12
TypeIdString == 13
TypeIdBinary == 14

\* field.type.id
TypeId(t) ==
    CASE t = "int32" -> TypeIdInt32
      [] t = "int64" -> TypeIdInt64
      [] t = "double" -> TypeIdDouble
      [] t = "string" -> TypeIdString
      [] t = "binary" -> TypeIdBinary

----------------------------------------------------------------------------
(* key_encoding_utils.py: the value and key encoders *)

\* values.to_pylist() turned into payload bytes, by column type; an int64
\* column is packed with "<l", which is four bytes wide under "<"
ValBytes(type, val) ==
    CASE type = "string" -> Utf8(val)
      [] type = "binary" -> val
      [] type = "int32" -> PackI32(val)
      [] type = "int64" -> PackL(val)

\* an encoder with no else branch: a column of any other type is packed as
\* 32-bit integers
SerializeValsCoerced(type, vals) ==
    IF type = "int64" /\ \E i \in 1..Len(vals) : ~InInt32(vals[i])
    THEN [err |-> "struct.error", out |-> <<>>]
    ELSE [err |-> "none",
          out |-> [i \in 1..Len(vals) |->
                      LET b == IF type \in {"string", "binary", "int32", "int64"}
                               THEN ValBytes(type, vals[i]) ELSE PackI32(vals[i])
                      IN  PackU32(Len(b)) \o b]]

\* _serialize_vals(values): one length-prefixed byte string per row, or the
\* exception raised: ValueError for a column type outside the four
\* branches, struct.error for an integer struct.pack cannot hold
_serialize_vals(type, vals) ==
    IF type \notin {"string", "binary", "int32", "int64"}
    THEN [err |-> "ValueError", out |-> <<>>]
    ELSE IF type = "int64" /\ \E i \in 1..Len(vals) : ~InInt32(vals[i])
    THEN [err |-> "struct.error", out |-> <<>>]
    ELSE [err |-> "none",
          out |-> [i \in 1..Len(vals) |->
                      PackU32(Len(ValBytes(type, vals[i]))) \o ValBytes(type, vals[i])]]

\* serialize_entity_key_prefix(entity_keys): per name, in sorted order, the
\* string type id and the name
serialize_entity_key_prefix(entity_keys) ==
    LET sorted_keys == SortedSeq(Range(entity_keys))
    IN  Concat([j \in 1..Len(sorted_keys) |->
                   PackU32(TypeIdString) \o Utf8(sorted_keys[j])])

\* the columns taken in the order given, with no sort
SelectAsGiven(names) == [j \in 1..Len(names) |-> j]

\* entity_key.select(sorted(entity_key.schema.names)): for each position of
\* the selected table, the position of that column in the given table
SelectSorted(names) ==
    LET sorted == SortedSeq(Range(names))
    IN  [j \in 1..Len(sorted) |-> CHOOSE i \in 1..Len(names) : names[i] = sorted[j]]

\* key_def_bin: per field of the selected schema, the string type id, the
\* field name and the field's type id
KeyDefBin(names, types, sel) ==
    Concat([j \in 1..Len(sel) |->
               PackU32(TypeIdString) \o Utf8(names[sel[j]]) \o PackU32(TypeId(types[sel[j]]))])

\* [[]] * n: a list of n references to ONE list object; the elements of
\* the result are the object each position refers to
ListMul(n) == [i \in 1..n |-> 1]

RECURSIVE ZipAppend(_, _, _, _)
\* for old, new in zip(key_val_bins, vals): old.append(new), from pair i on;
\* heap maps a list object to the bytes appended to it so far
ZipAppend(refs, heap, vals, i) ==
    IF i > Len(refs) \/ i > Len(vals) THEN heap
    ELSE ZipAppend(refs, [heap EXCEPT ![refs[i]] = @ \o vals[i]], vals, i + 1)

RECURSIVE AppendColumns(_, _, _, _, _)
\* for column in entity_key.columns: ..., from column j of the selection on
AppendColumns(batch, sel, refs, heap, j) ==
    IF j > Len(sel) THEN [err |-> "none", heap |-> heap]
    ELSE LET sv == _serialize_vals(batch.types[sel[j]], batch.cols[sel[j]])
         IN  IF sv.err # "none" THEN [err |-> sv.err, heap |-> heap]
             ELSE AppendColumns(batch, sel, refs, ZipAppend(refs, heap, sv.out, 1), j + 1)

\* serialize_entity_keys(entity_key): the list of encoded keys, one per
\* row, or the exception raised
serialize_entity_keys(batch) ==
    LET sel == SelectSorted(batch.names)
        key_def_bin == KeyDefBin(batch.names, batch.types, sel)
        key_val_bins == ListMul(batch.num_rows)
        heap0 == [c \in 1..batch.num_rows |-> <<>>]
        done == AppendColumns(batch, sel, key_val_bins, heap0, 1)
    IN  IF done.err # "none" THEN [err |-> done.err, keys |-> <<>>]
        ELSE [err |-> "none",
              keys |-> [i \in 1..batch.num_rows |-> key_def_bin \o done.heap[key_val_bins[i]]]]

\* the same table with its columns given in the order p (a permutation of
\* the column positions)
PermuteColumns(batch, p) ==
    [names |-> [j \in 1..Len(p) |-> batch.names[p[j]]],
     types |-> [j \in 1..Len(p) |-> batch.types[p[j]]],
     num_rows |-> batch.num_rows,
     cols |-> [j \in 1..Len(p) |-> batch.cols[p[j]]]]

----------------------------------------------------------------------------
(* The encoder's inputs *)

\* field names: "a", "b" and "aé"
FieldNames == {<<97>>, <<98>>, <<97, 233>>}

\* column types: the four the encoder has a branch for, and one it has not
ColumnTypes == {"string", "binary", "int32", "int64", "double"}

\* a few values of each column type; the int64 values are 3 and 2^31, the
\* latter outside the 32-bit range
ValuesOf(type) ==
    CASE type = "string" -> {<<120>>, <<233, 121>>}
      [] type = "binary" -> {<<0>>, <<1, 2>>}
      [] type = "int32" -> {1, -2}
      [] type = "int64" -> {<<3, 0, 0, 0, 0, 0, 0, 0>>, <<0, 0, 0, 128, 0, 0, 0, 0>>}
      [] type = "double" -> {5}

\* the schemas: up to two distinct field names, in either order
NameSeqs ==
    {<<>>} \cup {<<a>> : a \in FieldNames}
           \cup {p \in FieldNames \X FieldNames : p[1] # p[2]}

\* the column data of a table with the given column types and n rows
ColumnsOf(types, n) ==
    IF Len(types) = 0 THEN {<<>>}
    ELSE IF Len(types) = 1 THEN {<<c>> : c \in [1..n -> ValuesOf(types[1])]}
    ELSE {<<c, d>> : c \in [1..n -> ValuesOf(types[1])], d \in [1..n -> ValuesOf(types[2])]}

\* no encoder call made yet
EncPending == [err |-> "pending", keys |-> <<>>]

\* no prefix encoder call made yet
PrefixPending == [done |-> FALSE, out |-> <<>>]

----------------------------------------------------------------------------
(* The missing single-key encoder, from the key codec's description *)

\* encode_value: u32 length, then the payload; a 64-bit integer is eight
\* bytes wide; any other kind of value is an UnsupportedType error
encode_value(type, val) ==
    IF type \notin {"string", "binary", "int32", "int64"}
    THEN [err |-> "UnsupportedType", out |-> <<>>]
    ELSE LET payload == CASE type = "string" -> Utf8(val)
                          [] type = "binary" -> val
                          [] type = "int32" -> PackI32(val)
                          [] type = "int64" -> val
         IN  [err |-> "none", out |-> PackU32(Len(payload)) \o payload]

\* serialize_entity_key(entity_key), the encode_key of the key codec:
\* fields sorted by name, the header, then each field's encoded value
serialize_entity_key(names, types, vals) ==
    LET sel == SelectSorted(names)
        enc == [j \in 1..Len(sel) |-> encode_value(types[sel[j]], vals[sel[j]])]
    IN  IF \E j \in 1..Len(sel) : enc[j].err # "none"
        THEN [err |-> "UnsupportedType", key |-> <<>>]
        ELSE [err |-> "none",
              key |-> KeyDefBin(names, types, sel) \o Concat([j \in 1..Len(sel) |-> enc[j].out])]

----------------------------------------------------------------------------
(* sqlite.py: the store's configuration and inputs *)

\* config.project
Project == "proj"

\* the names of the feature views
TableNames == {"t1", "t2"}

\* _table_id(project, table)
_table_id(project, name) == project \o "_" \o name

\* the ids of the physical tables
TableIds == {_table_id(Project, t) : t \in TableNames}

\* _get_column_names(table, entities): the entity column of each feature
\* view: "a", 32-bit, for t1 and "b", 64-bit, for t2
EntityName(t) == IF t = "t1" THEN <<97>> ELSE <<98>>
EntityType(t) == IF t = "t1" THEN "int32" ELSE "int64"

\* the entity key values of a feature view
KeysOf(t) == ValuesOf(EntityType(t))

\* the feature payload, event_ts and created_ts (0: None) of the rows
\* written: the second payload carries the earlier event_ts
FeatureRows ==
    {[v |-> 1, event_ts |-> 2, created_ts |-> 0], [v |-> 2, event_ts |-> 1, created_ts |-> 3]}

\* the rows a write_batch may carry for a feature view
RowsOf(t) ==
    {[key |-> k, v |-> f.v, event_ts |-> f.event_ts, created_ts |-> f.created_ts] :
        k \in KeysOf(t), f \in FeatureRows}

\* sequences of length at most n over S
SeqsUpTo(S, n) == UNION {[1..m -> S] : m \in 0..n}

\* data.select(entity_cols): the entity columns of the rows written
EntityBatch(t, rows) ==
    [names |-> <<EntityName(t)>>, types |-> <<EntityType(t)>>, num_rows |-> Len(rows),
     cols |-> <<[i \in 1..Len(rows) |-> rows[i].key]>>]

\* batch.serialize() of the one-row batch of feature columns: an Arrow IPC
\* message holding the payload (opaque to the store)
SerializeFeatures(v) == [ipc |-> v]

----------------------------------------------------------------------------
(* sqlite.py: the statements the store executes *)

\* a physical table that does not exist
NoTable == [exists |-> FALSE, index |-> FALSE, rows |-> {}]

\* CREATE TABLE t (...) without IF NOT EXISTS: an error when the table exists
CreateTable(st) ==
    IF st.exists THEN [err |-> "OperationalError", st |-> st]
    ELSE [err |-> "none", st |-> [exists |-> TRUE, index |-> FALSE, rows |-> {}]]

\* DROP TABLE IF EXISTS t followed by CREATE TABLE t (...): the table is
\* made anew
RecreateTable(st) ==
    [err |-> "none", st |-> [exists |-> TRUE, index |-> FALSE, rows |-> {}]]

\* CREATE TABLE IF NOT EXISTS t (..., PRIMARY KEY(entity_key))
CreateTableIfNotExists(st) ==
    IF st.exists THEN [err |-> "none", st |-> st]
    ELSE [err |-> "none", st |-> [exists |-> TRUE, index |-> FALSE, rows |-> {}]]

\* CREATE INDEX IF NOT EXISTS t_ek ON t (entity_key)
CreateIndexIfNotExists(st) ==
    IF ~st.exists THEN [err |-> "OperationalError", st |-> st]
    ELSE [err |-> "none", st |-> [st EXCEPT !.index = TRUE]]

\* DELETE FROM t in place of the drop: the rows go, the table stays
DeleteAllRows(st) == [st EXCEPT !.rows = {}]

\* DROP TABLE IF EXISTS t: the table goes, and its indexes with it
DropTableIfExists(st) == NoTable

\* an UPDATE that also compares timestamps: ... WHERE (entity_key = ?) AND
\* (event_ts < ?)
SqlUpdateIfNewer(rows, value, event, created, entity_key) ==
    {IF r.entity_key = entity_key /\ r.event_ts < event
        THEN [r EXCEPT !.value = value, !.event_ts = event, !.created_ts = created]
        ELSE r : r \in rows}

\* UPDATE t SET value = ?, event_ts = ?, created_ts = ? WHERE (entity_key = ?)
SqlUpdate(rows, value, event, created, entity_key) ==
    {IF r.entity_key = entity_key
        THEN [r EXCEPT !.value = value, !.event_ts = event, !.created_ts = created]
        ELSE r : r \in rows}

\* INSERT OR IGNORE INTO t (entity_key, value, event_ts, created_ts) VALUES
\* (?, ?, ?, ?): ignored when a row holds the primary key
SqlInsertOrIgnore(rows, entity_key, value, event, created) ==
    IF \E r \in rows : r.entity_key = entity_key THEN rows
    ELSE rows \cup {[entity_key |-> entity_key, value |-> value,
                     event_ts |-> event, created_ts |-> created]}

RECURSIVE SortRows(_)
\* ORDER BY entity_key, on rows of pairwise distinct keys
SortRows(rows) ==
    IF rows = {} THEN <<>>
    ELSE LET m == CHOOSE r \in rows :
                     \A q \in rows \ {r} : LexLess(r.entity_key, q.entity_key)
         IN  <<m>> \o SortRows(rows \ {m})

\* SELECT entity_key, value FROM t WHERE entity_key IN (...) ORDER BY
\* entity_key, then fetchall(): a list of 2-tuples
SqlSelectIn(rows, bins) ==
    LET hit == SortRows({r \in rows : r.entity_key \in Range(bins)})
    IN  [i \in 1..Len(hit) |-> <<hit[i].entity_key, hit[i].value>>]

\* a commit whether or not the block raised
ConnExitCommit(before, working, raised) == working

\* with conn: leaving the block commits, or rolls back when the block raised
ConnExit(before, working, raised) == IF raised THEN before ELSE working

----------------------------------------------------------------------------
(* sqlite.py: the store's operations *)

\* the database of a newly created file: no table
EmptyDb == [tid \in TableIds |-> NoTable]

\* no operation called yet
NoCall == [name |-> "none", table |-> "", keys |-> <<>>, keep |-> {}, delete |-> {},
           repeat |-> FALSE, progress |-> FALSE]

\* an operation's outcome: the exception it raised, the list it returned,
\* the number of progress() calls it made, the number of statements it
\* executed, and whether the file it was to unlink was missing
NoRet == [err |-> "none", out |-> <<>>, progress |-> 0, stmts |-> 0, missing |-> FALSE]

\* the state of a store instance right after construction, with no file
\* at the database path nor at the registry path
StoreIdle ==
    /\ conn = FALSE
    /\ attr = [class |-> 0, self |-> 0, other |-> 0]
    /\ connects = 0
    /\ pathExists = FALSE
    /\ db = EmptyDb
    /\ registryExists = FALSE
    /\ call = NoCall
    /\ ret = NoRet
    /\ lastWrite = [tid \in TableIds |-> {}]
    /\ nWrites = 0

\* inst._conn: the instance's attribute when it has one, the class's
\* otherwise
Lookup(attrs, inst) == IF attrs[inst] # 0 THEN attrs[inst] ELSE attrs["class"]

\* SqliteOnlineStore._conn = c: the connection cached on the class
SetClassConn(attrs, inst, c) == [attrs EXCEPT !["class"] = c]

\* self._conn = c: the connection cached on the instance
SetConn(attrs, inst, c) == [attrs EXCEPT ![inst] = c]

\* if not self._conn: self._conn = sqlite3.connect(...), for the instance
\* inst; connections are numbered in the order they are opened
Connect(inst) ==
    IF Lookup(attr, inst) # 0 THEN UNCHANGED <<attr, connects>>
    ELSE /\ connects' = connects + 1
         /\ attr' = SetConn(attr, inst, connects + 1)

\* _get_conn(config): the cached connection, or a new one, which creates
\* the file at the database path
_get_conn ==
    /\ conn' = TRUE
    /\ pathExists' = IF conn THEN pathExists ELSE TRUE
    /\ Connect("self")

RECURSIVE Upserts(_, _, _, _, _)
\* the statements of the write loop from statement s up to statement last:
\* statement 2i - 1 is the UPDATE of row i, statement 2i its INSERT OR IGNORE
Upserts(tbl, keys, rows, s, last) ==
    IF s > last THEN tbl
    ELSE LET i == (s + 1) \div 2
             value == SerializeFeatures(rows[i].v)
             next == IF s % 2 = 1
                     THEN SqlUpdate(tbl, value, rows[i].event_ts, rows[i].created_ts, keys[i])
                     ELSE SqlInsertOrIgnore(tbl, keys[i], value, rows[i].event_ts,
                                            rows[i].created_ts)
         IN  Upserts(next, keys, rows, s + 1, last)

RECURSIVE Record(_, _, _)
\* the last row written for each entity key, after rows i.. of a committed
\* batch
Record(last, rows, i) ==
    IF i > Len(rows) THEN last
    ELSE Record({w \in last : w.key # rows[i].key} \cup {rows[i]}, rows, i + 1)

\* the smaller of two numbers
Min(a, b) == IF a < b THEN a ELSE b

\* the connection's database file has been unlinked from its path while the
\* connection stayed open: the connection still reads the file, and SQLite
\* refuses every statement that would change it (OperationalError)
Moved == conn /\ ~pathExists

RECURSIVE FirstChange(_, _, _, _, _)
\* the first statement of the write loop, from statement s on, that changes
\* the table (0: none does)
FirstChange(tbl, keys, rows, s, last) ==
    IF s > last THEN 0
    ELSE IF Upserts(tbl, keys, rows, s, s) # tbl THEN s
    ELSE FirstChange(tbl, keys, rows, s + 1, last)

\* the statement at which the with block raises (0: none): the earlier of
\* the backend's failure and of the first statement SQLite refuses
StopAt(failAt, refused) ==
    IF failAt = 0 THEN refused
    ELSE IF refused = 0 THEN failAt
    ELSE Min(failAt, refused)

\* progress(1) called once per row, inside the loop
ProgressPerRow(progress, raised, executed) ==
    IF progress THEN executed \div 2 ELSE 0

\* if progress: progress(1), after the loop and inside the with block: the
\* number of calls of progress
ProgressCalls(progress, raised, executed) ==
    IF progress /\ ~raised THEN 1 ELSE 0

\* online_write_batch(config, table, entities, data, progress), given the
\* outcome enc of its call of serialize_entity_keys.  failAt is the
\* statement at which the backend raises (0: none does)
online_write_batch(t, rows, enc, progress, failAt) ==
    LET tid == _table_id(Project, t)
        n == Min(Len(enc.keys), Len(rows))
        noTable == ~db[tid].exists /\ n >= 1
        refused == IF Moved THEN FirstChange(db[tid].rows, enc.keys, rows, 1, 2 * n) ELSE 0
        stopAt == IF noTable THEN 1 ELSE StopAt(failAt, refused)
        raised == stopAt # 0
        executed == IF raised THEN stopAt - 1 ELSE 2 * n
        working == Upserts(db[tid].rows, enc.keys, rows, 1, executed)
        committed == enc.err = "none" /\ ~raised
    IN  /\ nWrites < MaxWrites
        /\ nWrites' = IF committed THEN nWrites + 1 ELSE nWrites
        /\ _get_conn
        /\ call' = [NoCall EXCEPT !.name = "write", !.table = t, !.progress = progress,
                                  !.keys = [i \in 1..Len(rows) |-> rows[i].key]]
        /\ IF enc.err # "none"
           THEN /\ ret' = [NoRet EXCEPT !.err = enc.err]
                /\ UNCHANGED <<db, lastWrite>>
           ELSE /\ db' = [db EXCEPT ![tid].rows = ConnExit(@, working, raised)]
                /\ ret' = [NoRet EXCEPT !.err = IF raised THEN "OperationalError" ELSE "none",
                                        !.stmts = executed,
                                        !.progress = ProgressCalls(progress, raised, executed)]
                /\ lastWrite' = IF raised THEN lastWrite
                                ELSE [lastWrite EXCEPT ![tid] = Record(@, rows, 1)]
        /\ UNCHANGED <<registryExists, encVars>>

\* the result (None, None)
NoneResult == [found |-> FALSE, ts |-> 0, features |-> 0]

\* the result (res_ts, res)
Result(ts, features) == [found |-> TRUE, ts |-> ts, features |-> features]

\* {k: v for k, v in itertools.groupby(rows, key=lambda r: r[0])}: each v is
\* an iterator over the groupby object's own position, which has moved
\* past every group when the comprehension ends; every v is then exhausted
groupby_dict(fetched) == [k \in {fetched[i][1] : i \in 1..Len(fetched)} |-> <<>>]

\* the body of the loop over entity_keys: the rows of the key's group are
\* unpacked into (_, feature_name, val_bin, ts); a fetched row is a 2-tuple
ReadOne(groups, entity_key_bin) ==
    LET group == IF entity_key_bin \in DOMAIN groups THEN groups[entity_key_bin] ELSE <<>>
    IN  IF \E j \in 1..Len(group) : Len(group[j]) # 4
        THEN [err |-> "ValueError", res |-> NoneResult]
        ELSE IF group = <<>>
        THEN [err |-> "none", res |-> NoneResult]
        ELSE [err |-> "none",
              res |-> Result(group[Len(group)][4],
                             {<<group[j][2], group[j][3]>> : j \in 1..Len(group)})]

\* online_read(config, table, entity_keys, requested_features)
online_read(t, keys) ==
    LET tid == _table_id(Project, t)
        bins == [i \in 1..Len(keys) |->
                    serialize_entity_key(<<EntityName(t)>>, <<EntityType(t)>>, <<keys[i]>>).key]
        groups == groupby_dict(SqlSelectIn(db[tid].rows, bins))
        each == [i \in 1..Len(keys) |-> ReadOne(groups, bins[i])]
    IN  /\ _get_conn
        /\ call' = [NoCall EXCEPT !.name = "read", !.table = t, !.keys = keys]
        /\ ret' = IF ~db[tid].exists THEN [NoRet EXCEPT !.err = "OperationalError"]
                  ELSE IF \E i \in 1..Len(keys) : each[i].err # "none"
                  THEN [NoRet EXCEPT !.err = "ValueError"]
                  ELSE [NoRet EXCEPT !.out = [i \in 1..Len(keys) |-> each[i].res]]
        /\ UNCHANGED <<db, registryExists, lastWrite, nWrites, encVars>>

\* conn.execute(statement) on a table in state st, res being the
\* statement's outcome on an attached database: a statement that would
\* change a moved database raises and changes nothing
Execute(st, res) ==
    IF Moved /\ res.st # st THEN [err |-> "OperationalError", st |-> st] ELSE res

\* the two statements update() executes for a table to keep
KeepTable(st) ==
    LET made == Execute(st, CreateTableIfNotExists(st))
    IN  IF made.err # "none" THEN made ELSE Execute(made.st, CreateIndexIfNotExists(made.st))

\* update(config, tables_to_delete, tables_to_keep, ...): the tables to keep
\* are created first, the tables to delete are dropped after
update(delete, keep) ==
    LET kept == [tid \in TableIds |->
                    IF \E t \in keep : _table_id(Project, t) = tid
                    THEN KeepTable(db[tid]) ELSE [err |-> "none", st |-> db[tid]]]
        dropped == {_table_id(Project, t) : t \in delete}
        failed == \/ \E tid \in TableIds : kept[tid].err # "none"
                  \/ \E tid \in dropped :
                        Execute(kept[tid].st,
                                [err |-> "none", st |-> DropTableIfExists(kept[tid].st)]).err # "none"
    IN  /\ _get_conn
        /\ call' = [NoCall EXCEPT !.name = "update", !.keep = keep, !.delete = delete,
                                  !.repeat = /\ call.name = "update"
                                             /\ call.keep = keep
                                             /\ call.delete = delete
                                             /\ ret.err = "none"]
        /\ ret' = [NoRet EXCEPT !.err = IF failed THEN "OperationalError" ELSE "none"]
        /\ db' = [tid \in TableIds |->
                     IF ~failed /\ tid \in dropped THEN DropTableIfExists(kept[tid].st)
                     ELSE kept[tid].st]
        /\ lastWrite' = [tid \in TableIds |->
                            IF ~failed /\ tid \in dropped THEN {} ELSE lastWrite[tid]]
        /\ UNCHANGED <<registryExists, nWrites, encVars>>

\* os.unlink(path) and Path.unlink(): the file is gone afterwards, and
\* FileNotFoundError is raised when there was none
Unlink(exists) == [exists |-> FALSE, err |-> IF exists THEN "none" ELSE "FileNotFoundError"]

\* the unlink with no except clause around it
NoExcept(err) == err

\* try: ... except FileNotFoundError: pass, in SqliteOnlineStore.teardown
StoreTeardownExcept(err) == IF err = "FileNotFoundError" THEN "none" ELSE err

\* SqliteOnlineStore.teardown(config, tables, entities): the cached
\* connection is left as it is
teardown ==
    LET gone == Unlink(pathExists)
    IN  /\ pathExists' = gone.exists
        /\ call' = [NoCall EXCEPT !.name = "teardown"]
        /\ ret' = [NoRet EXCEPT !.err = StoreTeardownExcept(gone.err),
                                !.missing = (gone.err = "FileNotFoundError")]
        /\ UNCHANGED <<conn, attr, connects, db, registryExists, lastWrite, nWrites, encVars>>

\* update(config, [], [], ...) called on a second store instance, which is
\* configured with a database path of its own: with no table to keep nor
\* to delete the call is its _get_conn alone
other_update ==
    /\ Connect("other")
    /\ call' = [NoCall EXCEPT !.name = "other_update"]
    /\ ret' = NoRet
    /\ UNCHANGED <<conn, pathExists, db, registryExists, lastWrite, nWrites, encVars>>

----------------------------------------------------------------------------
(* local.py: the registry store *)

\* LocalRegistryStore.update_registry_proto(registry_proto): _write_registry
\* writes the file
update_registry_proto ==
    /\ registryExists' = TRUE
    /\ call' = [NoCall EXCEPT !.name = "update_registry_proto"]
    /\ ret' = NoRet
    /\ UNCHANGED <<conn, attr, connects, pathExists, db, lastWrite, nWrites, encVars>>

\* LocalRegistryStore.get_registry_proto()
get_registry_proto ==
    /\ call' = [NoCall EXCEPT !.name = "get_registry_proto"]
    /\ ret' = [NoRet EXCEPT !.err = IF registryExists THEN "none" ELSE "FileNotFoundError"]
    /\ UNCHANGED <<conn, attr, connects, pathExists, db, registryExists, lastWrite, nWrites,
                   encVars>>

\* try: ... except FileNotFoundError: pass, in LocalRegistryStore.teardown
RegistryTeardownExcept(err) == IF err = "FileNotFoundError" THEN "none" ELSE err

\* LocalRegistryStore.teardown()
registry_teardown ==
    LET gone == Unlink(registryExists)
    IN  /\ registryExists' = gone.exists
        /\ call' = [NoCall EXCEPT !.name = "registry_teardown"]
        /\ ret' = [NoRet EXCEPT !.err = RegistryTeardownExcept(gone.err),
                                !.missing = (gone.err = "FileNotFoundError")]
        /\ UNCHANGED <<conn, attr, connects, pathExists, db, lastWrite, nWrites, encVars>>

----------------------------------------------------------------------------
(* Spec: the operations of one store instance and one registry store *)

Init ==
    /\ StoreIdle
    /\ encIn = [names |-> <<>>, types |-> <<>>, cols |-> <<>>, num_rows |-> 0]
    /\ encOut = EncPending
    /\ prefixOut = PrefixPending

WriteBatch ==
    \E t \in TableNames :
       \E rows \in SeqsUpTo(RowsOf(t), MaxRows) :
          LET entity_key_bin == serialize_entity_keys(EntityBatch(t, rows))
          IN  \E failAt \in 0..(2 * Len(rows)) :
                 \* a call the backend fails is made with a callback
                 \* supplied: it never reaches progress(1)
                 \E progress \in IF failAt = 0 THEN BOOLEAN ELSE {TRUE} :
                    online_write_batch(t, rows, entity_key_bin, progress, failAt)

ReadBatch ==
    \E t \in TableNames :
       \E keys \in SeqsUpTo(KeysOf(t), MaxKeys) :
          online_read(t, keys)

Reconcile ==
    \E delete \in SUBSET TableNames, keep \in SUBSET TableNames :
       update(delete, keep)

Teardown == teardown

UpdateRegistry == update_registry_proto

GetRegistry == get_registry_proto

RegistryTeardown == registry_teardown

Next ==
    \/ WriteBatch
    \/ ReadBatch
    \/ Reconcile
    \/ Teardown
    \/ UpdateRegistry
    \/ GetRegistry
    \/ RegistryTeardown

Spec == Init /\ [][Next]_vars

----------------------------------------------------------------------------
(* SpecConn: the store's operations called on one instance, beside a       *)
(* second instance of the store                                            *)

OtherReconcile == other_update

NextConn ==
    \/ WriteBatch
    \/ ReadBatch
    \/ Reconcile
    \/ Teardown
    \/ OtherReconcile

SpecConn == Init /\ [][NextConn]_vars

----------------------------------------------------------------------------
(* SpecEnc: the key encoder applied to one table *)

\* a table of up to MaxRows rows over one of the schemas is chosen
InitEnc ==
    /\ \E names \in NameSeqs, n \in 0..MaxRows :
          \E types \in [1..Len(names) -> ColumnTypes] :
             \E cols \in ColumnsOf(types, IF Len(names) = 0 THEN 0 ELSE n) :
                encIn = [names |-> names, types |-> types, cols |-> cols,
                         num_rows |-> IF Len(names) = 0 THEN 0 ELSE n]
    /\ encOut = EncPending
    /\ prefixOut = PrefixPending
    /\ StoreIdle

\* keys = serialize_entity_keys(table)
EncodeKeys ==
    /\ encOut = EncPending
    /\ encOut' = serialize_entity_keys(encIn)
    /\ UNCHANGED <<encIn, prefixOut, storeVars>>

\* prefix = serialize_entity_key_prefix(table.schema.names)
EncodePrefix ==
    /\ prefixOut = PrefixPending
    /\ prefixOut' = [done |-> TRUE, out |-> serialize_entity_key_prefix(encIn.names)]
    /\ UNCHANGED <<encIn, encOut, storeVars>>

NextEnc ==
    \/ EncodeKeys
    \/ EncodePrefix

SpecEnc == InitEnc /\ [][NextEnc]_vars

----------------------------------------------------------------------------
(* Properties of the store, under Spec *)

\* the physical table of the last call
CallTable == db[_table_id(Project, call.table)]

\* the rows committed writes carried, by entity key, for the last call's table
CallWritten == lastWrite[_table_id(Project, call.table)]

\* the encoded key the read path looks the i-th requested key up by
CallBin(i) ==
    serialize_entity_key(<<EntityName(call.table)>>, <<EntityType(call.table)>>,
                         <<call.keys[i]>>).key

\* the (event_ts, features) stored under an encoded key, or (None, None)
Stored(st, bin) ==
    IF \E r \in st.rows : r.entity_key = bin
    THEN LET r == CHOOSE q \in st.rows : q.entity_key = bin
         IN  Result(r.event_ts, r.value.ipc)
    ELSE NoneResult

\* C1: write-then-read round trip: once a committed write_batch carried
\* (k, v, event_ts = T) and no later write carried k, read_batch([k]) on
\* that table returns exactly [(T, v)].
C1_WriteThenRead ==
    (call.name = "read" /\ Len(call.keys) = 1) =>
        \A w \in CallWritten :
            w.key = call.keys[1] =>
                ret.err = "none" /\ ret.out = <<Result(w.event_ts, w.v)>>

\* C2: last write wins: after any sequence of committed write_batch calls,
\* a read of key k at any position yields the value and the event_ts of the
\* most recently executed write for k, whatever event_ts the earlier writes
\* carried.
C2_LastWriteWins ==
    (call.name = "read" /\ nWrites >= 1) =>
        \A i \in 1..Len(call.keys) :
            \A w \in CallWritten :
                w.key = call.keys[i] =>
                    /\ i <= Len(ret.out)
                    /\ ret.out[i].ts = w.event_ts
                    /\ ret.out[i].features = w.v

\* C3: write_batch is atomic: a write_batch call that raises (while
\* encoding, or at any statement of the batch) leaves every table's
\* contents as they were before the call.
C3_WriteAtomic ==
    [][(call'.name = "write" /\ ret'.err # "none") => db' = db]_vars

\* C3's case: a write_batch that raised after at least its first row's
\* statements had run, on a table that holds rows
C3_Witness ==
    /\ call.name = "write"
    /\ ret.err = "OperationalError"
    /\ ret.stmts >= 2
    /\ CallTable.rows # {}

\* C4: read_batch returns one result per input key, and the i-th result is
\* the stored (timestamp, features) of the i-th input key, (None, None) when
\* no row is stored for it, also for a key given more than once.
C4_ReadPositional ==
    (call.name = "read" /\ ret.err = "none") =>
        /\ Len(ret.out) = Len(call.keys)
        /\ \A i \in 1..Len(call.keys) : ret.out[i] = Stored(CallTable, CallBin(i))

\* C5: a key never written to the table since it was created reads as
\* (None, None), while the keys of the same call that were written read as
\* their rows.
C5_NeverWrittenIsNone ==
    (call.name = "read" /\ ret.err = "none") =>
        \A i \in 1..Len(call.keys) :
            IF \E w \in CallWritten : w.key = call.keys[i]
            THEN ret.out[i].found
            ELSE ret.out[i] = NoneResult

\* C8 as claimed: after an update() that returned, every table to keep has
\* storage and its entity_key index, and every table to delete has none.
C8_ReconcilePostcondition ==
    (call.name = "update" /\ ret.err = "none") =>
        /\ \A t \in call.keep :
              db[_table_id(Project, t)].exists /\ db[_table_id(Project, t)].index
        /\ \A t \in call.delete : ~db[_table_id(Project, t)].exists

\* C8, amended: after an update() that returned, every table to keep that is
\* not also a table to delete has storage and its entity_key index, and
\* every table to delete has no storage (the drops run after the creates).
C8_ReconcileDeleteWins ==
    (call.name = "update" /\ ret.err = "none") =>
        /\ \A t \in call.keep \ call.delete :
              db[_table_id(Project, t)].exists /\ db[_table_id(Project, t)].index
        /\ \A t \in call.delete : ~db[_table_id(Project, t)].exists

\* C8's case: an update() with a table to keep that was present and holds
\* rows, and another table to delete
C8_Witness ==
    /\ call.name = "update"
    /\ ret.err = "none"
    /\ call.delete # {}
    /\ \E t \in call.keep \ call.delete : db[_table_id(Project, t)].rows # {}

\* C9: update() called twice in a row with the same tables to keep and to
\* delete raises nothing the second time and leaves the tables, their
\* indexes and their rows as they were after the first call.
C9_ReconcileIdempotent ==
    [][(call'.name = "update" /\ call'.repeat) => (ret'.err = "none" /\ db' = db)]_vars

\* C9's case: a second identical update() with tables to keep and to
\* delete, while a table holds rows
C9_Witness ==
    /\ call.name = "update"
    /\ call.repeat
    /\ call.keep # {}
    /\ call.delete # {}
    /\ \E tid \in TableIds : db[tid].rows # {}

\* C10: a teardown that finds no file to unlink, of the online store or of
\* the registry store, returns without raising.
C10_TeardownMissingOk ==
    (call.name \in {"teardown", "registry_teardown"} /\ ret.missing) => ret.err = "none"

\* C10's case: a teardown of the online store whose file, created by an
\* earlier operation, was already unlinked
C10_Witness ==
    /\ call.name = "teardown"
    /\ ret.missing
    /\ conn

\* C11: teardown destroys the storage and releases the connection: after a
\* teardown that returned, the instance holds no open connection and the
\* storage its later operations work against is fresh and empty.
C11_TeardownReleases ==
    (call.name = "teardown" /\ ret.err = "none") => (~conn /\ db = EmptyDb)

\* C12: one row per distinct entity key: every table holds as many rows as
\* there are distinct entity keys that committed writes have carried to it
\* since it was created; a committed batch of N pairwise distinct keys into
\* an empty table leaves N rows.
C12_OneRowPerKey ==
    \A tid \in TableIds :
        Cardinality(db[tid].rows) = Cardinality({w.key : w \in lastWrite[tid]})

\* C13: the progress callback, when supplied, is called exactly once by a
\* write_batch call that returns, whatever the number of rows (zero
\* included), and only after every statement of every row has been
\* executed; it is never called once per row, and a call that raises has
\* not called it.
C13_ProgressOnce ==
    call.name = "write" =>
        /\ ret.progress <= 1
        /\ (call.progress /\ ret.err = "none") => ret.progress = 1
        /\ ret.progress = 1 => (call.progress /\ ret.stmts = 2 * Len(call.keys))
        /\ ret.err # "none" => ret.progress = 0

\* C13's case: a write_batch of two rows, with a callback, that returned
C13_Witness ==
    /\ call.name = "write"
    /\ call.progress
    /\ Len(call.keys) = 2
    /\ ret.err = "none"
    /\ ret.progress = 1

\* the key serialize_entity_keys gives the one row of a batch holding the
\* entity key k alone, or its error
OneKey(t, k) == serialize_entity_keys(EntityBatch(t, <<[key |-> k]>>))

\* the keys an upsert of table t may carry: the keys stored in it and the
\* keys of its entities
UpsertKeys(t) ==
    {r.entity_key : r \in db[_table_id(Project, t)].rows}
        \cup {OneKey(t, k).keys[1] : k \in {x \in KeysOf(t) : OneKey(t, x).err = "none"}}

\* a true upsert of (k, value, event_ts, created_ts) into a table's rows
TrueUpsert(tbl, k, f) ==
    {r \in tbl : r.entity_key # k}
        \cup {[entity_key |-> k, value |-> SerializeFeatures(f.v),
                event_ts |-> f.event_ts, created_ts |-> f.created_ts]}

\* C17: the upsert emulation refines a true upsert: from every table state
\* and for every row (k, v, ts), the UPDATE on k followed by the INSERT OR
\* IGNORE leaves exactly one row with key k, carrying (v, ts), and every
\* row of another key as it was, whether k was present or absent.
C17_UpsertRefinement ==
    \A t \in TableNames :
        \A k \in UpsertKeys(t), f \in FeatureRows :
            LET tbl == db[_table_id(Project, t)].rows
                after == Upserts(tbl, <<k>>, <<f>>, 1, 2)
            IN  /\ after = TrueUpsert(tbl, k, f)
                /\ Cardinality({r \in after : r.entity_key = k}) = 1

\* C17's case: a committed write_batch has left a table with a stored key
\* and a row of another key, while a key of its entities is not stored
C17_Witness ==
    /\ call.name = "write"
    /\ ret.err = "none"
    /\ ret.stmts >= 2
    /\ Cardinality(CallTable.rows) >= 2
    /\ \E k \in UpsertKeys(call.table) : \A r \in CallTable.rows : r.entity_key # k

\* C19: update() preserves the data of the tables it keeps: every table
\* that is not a table to delete, the existing tables to keep among them,
\* has the same rows (keys, values, timestamps) after the call as before;
\* only tables to delete lose rows.
C19_ReconcileKeepsRows ==
    [][call'.name = "update" =>
          \A t \in TableNames \ call'.delete :
              /\ db'[_table_id(Project, t)].rows = db[_table_id(Project, t)].rows
              /\ db[_table_id(Project, t)].exists => db'[_table_id(Project, t)].exists]_vars

\* C19's case: a first update() has returned, with a table to keep that
\* holds two rows or more and another table to delete
C19_Witness ==
    /\ call.name = "update"
    /\ ~call.repeat
    /\ ret.err = "none"
    /\ call.delete # {}
    /\ \E t \in call.keep \ call.delete :
          Cardinality(db[_table_id(Project, t)].rows) >= 2

\* the entity keys the last call's batch carries more than once
CallRepeatedKeys ==
    {call.keys[i] : i \in {x \in 1..Len(call.keys) :
                              \E y \in 1..Len(call.keys) : y # x /\ call.keys[y] = call.keys[x]}}

\* C20: after a committed write_batch that carries an entity key more than
\* once, the table holds exactly one row for that key, and the row carries
\* the value and the timestamps of the last row of the batch with that key.
C20_RepeatedKeyLastWins ==
    (call.name = "write" /\ ret.err = "none") =>
        \A k \in CallRepeatedKeys :
            LET w == CHOOSE x \in CallWritten : x.key = k
                held == {r \in CallTable.rows : r.entity_key = OneKey(call.table, k).keys[1]}
            IN  held = {[entity_key |-> OneKey(call.table, k).keys[1],
                         value |-> SerializeFeatures(w.v),
                         event_ts |-> w.event_ts, created_ts |-> w.created_ts]}

----------------------------------------------------------------------------
(* Properties of the store's connections, under SpecConn *)

\* the last call was made on the first instance and needs a connection
CallConnects == call.name \in {"write", "read", "update"}

\* what holds of the connections in every state
ConnectionsDistinct ==
    /\ call.name = "none" => (Lookup(attr, "self") = 0 /\ connects = 0)
    /\ conn <=> Lookup(attr, "self") # 0
    /\ Lookup(attr, "other") # 0 => Lookup(attr, "other") # Lookup(attr, "self")

\* what holds of the connections over every step
ConnectionReused ==
    /\ \A inst \in {"self", "other"} :
          Lookup(attr, inst) # 0 => Lookup(attr', inst) = Lookup(attr, inst)
    /\ CallConnects' =>
          /\ Lookup(attr', "self") # 0
          /\ connects' = IF Lookup(attr, "self") # 0 THEN connects ELSE connects + 1

\* C18: a single lazily-opened connection per instance: an instance on
\* which nothing has been called holds no connection; a call of write_batch,
\* read_batch or reconcile opens a connection only when the instance has
\* none, which is at the first such call, and otherwise uses the one it
\* holds; no step replaces the connection an instance holds; and the two
\* instances never hold the same connection.
C18_SingleLazyConnection == []ConnectionsDistinct /\ [][ConnectionReused]_vars

\* C18's case: both instances hold a connection, and the first instance has
\* made a call after a write_batch of its own
C18_Witness ==
    /\ Lookup(attr, "self") # 0
    /\ Lookup(attr, "other") # 0
    /\ nWrites >= 1
    /\ call.name \in {"read", "update"}

----------------------------------------------------------------------------
(* Properties of the key encoder, under SpecEnc *)

\* header ++ the encoded values of row i alone, in sorted field order
RowKey(batch, i) ==
    LET sel == SelectSorted(batch.names)
    IN  KeyDefBin(batch.names, batch.types, sel)
        \o Concat([j \in 1..Len(sel) |->
                      _serialize_vals(batch.types[sel[j]], <<batch.cols[sel[j]][i]>>).out[1]])

\* C6: the key encoder is order-independent: with the columns of the table
\* supplied in any other order, the outcome (the keys, or the error) is the
\* same.
C6_OrderIndependent ==
    encOut # EncPending =>
        \A p \in Permutations(1..Len(encIn.names)) :
            serialize_entity_keys(PermuteColumns(encIn, p)) = encOut

\* C6's case: keys were produced for a table of two columns given in
\* descending name order
C6_Witness ==
    /\ encOut.err = "none"
    /\ encIn.num_rows >= 1
    /\ Len(encIn.names) = 2
    /\ LexLess(encIn.names[2], encIn.names[1])

\* C7: batch encoding equals per-row encoding: the i-th key of a batch is
\* the header followed by the encoded values of row i only.
C7_BatchEqualsPerRow ==
    encOut.err = "none" =>
        /\ Len(encOut.keys) = encIn.num_rows
        /\ \A i \in 1..encIn.num_rows : encOut.keys[i] = RowKey(encIn, i)

\* the column types _serialize_vals has a branch for
SupportedTypes == {"string", "binary", "int32", "int64"}

\* C14: value encoding fails closed: a column of a type other than string,
\* binary, 32-bit and 64-bit integer makes _serialize_vals raise ValueError
\* and return nothing, and a table holding such a column makes
\* serialize_entity_keys raise and return no key.
C14_FailsClosed ==
    encOut # EncPending =>
        \A j \in 1..Len(encIn.names) :
            encIn.types[j] \notin SupportedTypes =>
                /\ _serialize_vals(encIn.types[j], encIn.cols[j])
                      = [err |-> "ValueError", out |-> <<>>]
                /\ encOut.err # "none"
                /\ encOut.keys = <<>>

\* C14's case: the encoder has raised ValueError for a table of one or more
\* rows with a column it supports and a column it does not
C14_Witness ==
    /\ encOut.err = "ValueError"
    /\ encIn.num_rows >= 1
    /\ \E j \in 1..Len(encIn.names) : encIn.types[j] \in SupportedTypes
    /\ \E j \in 1..Len(encIn.names) : encIn.types[j] \notin SupportedTypes

\* C15: every 64-bit integer is encoded as the length prefix 8 followed by
\* its 8 bytes, little-endian two's complement, and every 32-bit integer as
\* the length prefix 4 followed by its 4 bytes.
C15_FixedWidthIntegers ==
    encOut # EncPending =>
        \A j \in 1..Len(encIn.names) :
            LET sv == _serialize_vals(encIn.types[j], encIn.cols[j])
            IN  /\ encIn.types[j] = "int64" =>
                      /\ sv.err = "none"
                      /\ \A i \in 1..Len(sv.out) :
                            sv.out[i] = PackU32(Len(encIn.cols[j][i])) \o encIn.cols[j][i]
                /\ encIn.types[j] = "int32" =>
                      /\ sv.err = "none"
                      /\ \A i \in 1..Len(sv.out) :
                            sv.out[i] = PackU32(Len(PackI32(encIn.cols[j][i])))
                                        \o PackI32(encIn.cols[j][i])

\* p is a leading part of s
IsPrefix(p, s) == Len(p) <= Len(s) /\ SubSeq(s, 1, Len(p)) = p

\* C16: the key prefix of a table's field names is a leading byte-prefix of
\* every key encoded for the table, for any number of fields.
C16_PrefixOfKey ==
    (prefixOut.done /\ encOut.err = "none") =>
        \A i \in 1..Len(encOut.keys) : IsPrefix(prefixOut.out, encOut.keys[i])

====
